---- MODULE Spec2Model ----
(***************************************************************************)
(* A model of the Note Linker plugin (src/main.js): the title index        *)
(* (noteTitlesCache / cacheUpToDate) kept against a mutable vault by       *)
(* create/delete events and batched rebuilds, and the scanner              *)
(* detectPotentialLinks.                                                   *)
(*                                                                         *)
(* JavaScript strings are sequences of one-character strings, so that      *)
(* startsWith, slicing and the regular-expression matcher work on          *)
(* characters as the code does.                                            *)
(***************************************************************************)
EXTENDS Integers, Sequences, FiniteSets, TLC

VARIABLES
    loaded,            \* onload has run (events and the command are registered)
    vault,             \* app.vault: the collection, in collection order
    excludedFolders,   \* settings.excludedFolders
    noteTitlesCache,   \* this.noteTitlesCache
    cacheUpToDate,     \* this.cacheUpToDate
    timers,            \* pending setTimeout(processBatch) callbacks, oldest first
    content,           \* the text runNoteLinker hands to detectPotentialLinks
    potentialLinks,    \* what the last detectPotentialLinks call returned
    event,             \* the operation that produced this state, with its argument
    done,              \* the rebuild that completed in this step (or NoRebuild)
    settings,          \* this.settings, but for excludedFolders (held above)
    respectCaseShown,  \* the settings tab, as last displayed, has the Respect Case toggle
    stored,            \* what vault.read(activeFile) returns: the note in storage
    selection,         \* editor.getSelection(), as the offsets [from, to) it covers
    modals,            \* the LinkSelectionModals that are open, the last opened last
    awaiting,           \* the async functions suspended at an await of the vault
    replacements       \* the replacement strings insertLinks built in this step

\* the state of the settings tab, the active note and the result browsers
noteVars == <<settings, respectCaseShown, stored, selection, modals, awaiting, replacements>>

vars == <<loaded, vault, excludedFolders, noteTitlesCache, cacheUpToDate,
          timers, content, potentialLinks, event, done, noteVars>>

(***************************************************************************)
(* Bounds of the model.                                                    *)
(***************************************************************************)
\* markdown notes that are in the vault from the start and are never touched
NBulk == 49
\* rebuilds that may have batches pending at the same time
MaxRebuilds == 1
\* rebuilds that may have batches pending at the same time in RebuildSpec
MaxOverlap == 2
\* longest text handed to the scanner in ScanSpec
MaxTextLen == 7

\* longest note of RewriteSpec
MaxNoteLen == 3
\* most references a note may hold and still be selected from and rewritten
MaxReferences == 0
\* most links checked in the result browser
MaxChecked == 2
\* async functions suspended, and result browsers open, at the same time
MaxInFlight == 2

(***************************************************************************)
(* Program constants.                                                      *)
(***************************************************************************)
\* processBatch: const batchSize = 50
batchSize == 50
\* detectPotentialLinks: 20 characters of context on each side
contextRadius == 20

(***************************************************************************)
(* Strings.                                                                *)
(***************************************************************************)
Digits == <<"0", "1", "2", "3", "4", "5", "6", "7", "8", "9">>

Min(a, b) == IF a <= b THEN a ELSE b

Max(a, b) == IF a >= b THEN a ELSE b

\* String.prototype.slice(from, to) with 0-based offsets, clamped to the string
Slice(s, from, to) == SubSeq(s, Max(0, from) + 1, Min(to, Len(s)))

\* String.prototype.startsWith
StartsWith(s, prefix) ==
    /\ Len(prefix) <= Len(s)
    /\ SubSeq(s, 1, Len(prefix)) = prefix

Range(s) == { s[i] : i \in 1..Len(s) }

(***************************************************************************)
(* The vault: TFile and TFolder objects.                                   *)
(***************************************************************************)
MD == <<"m", "d">>

TXT == <<"t", "x", "t">>

TFile(folder, basename, extension) ==
    [ path      |-> folder \o <<"/">> \o basename \o <<".">> \o extension,
      basename  |-> basename,
      extension |-> extension,
      isTFile   |-> TRUE ]

TFolder(path) ==
    [ path |-> path, basename |-> path, extension |-> <<>>, isTFile |-> FALSE ]

BulkNote(i) == TFile(<<"n">>, <<Digits[(i \div 10) + 1], Digits[(i % 10) + 1]>>, MD)

NoteA == TFile(<<"n">>, <<"A">>, MD)

NoteB == TFile(<<"e", "x">>, <<"B">>, MD)

FileC == TFile(<<"n">>, <<"C">>, TXT)

\* the files whose creation and deletion the model delivers
EventFiles == { NoteA, NoteB, FileC }

\* nothing is suspended and no result browser is open
Idle == awaiting = <<>> /\ modals = <<>>

\* the values the settings tab may give to excludedFolders
ExcludedChoices == { <<>>, << <<"e", "x">> >> }

BulkVault == << TFolder(<<"n">>), TFolder(<<"e", "x">>) >> \o [ i \in 1..NBulk |-> BulkNote(i) ]

\* the orders in which a subset of EventFiles may have been added
Arrangements ==
    { s \in UNION { [1..n -> EventFiles] : n \in 0..Cardinality(EventFiles) } :
        \A i, j \in 1..Len(s) : i # j => s[i] # s[j] }

InitialVaults == { BulkVault \o s : s \in Arrangements }

\* vault.getMarkdownFiles()
getMarkdownFiles(files) ==
    LET isMd(f) == f.isTFile /\ f.extension = MD
    IN  SelectSeq(files, isMd)

\* excludedFolders.some(folder => file.path.startsWith(folder))
isExcluded(file, excluded) ==
    \E k \in 1..Len(excluded) : StartsWith(file.path, excluded[k])

TitleEntry(file) == [ title |-> file.basename, path |-> file.path ]

Entries(files) == [ i \in 1..Len(files) |-> TitleEntry(files[i]) ]

\* the documents a rebuild has to index: markdown and under no excluded prefix
Qualifying(files, excluded) ==
    LET keep(f) == f.isTFile /\ f.extension = MD /\ ~isExcluded(f, excluded)
    IN  SelectSeq(files, keep)

PathsOf(entries) == { entries[i].path : i \in 1..Len(entries) }

QualifyingPaths(files, excluded) == PathsOf(Qualifying(files, excluded))

(***************************************************************************)
(* The scanner: detectPotentialLinks and the regular expression it builds. *)
(***************************************************************************)
LowerCase == <<"a", "b", "c", "d", "e", "f", "g", "h", "i", "j", "k", "l", "m",
               "n", "o", "p", "q", "r", "s", "t", "u", "v", "w", "x", "y", "z">>

UpperCase == <<"A", "B", "C", "D", "E", "F", "G", "H", "I", "J", "K", "L", "M",
               "N", "O", "P", "Q", "R", "S", "T", "U", "V", "W", "X", "Y", "Z">>

\* the cased letters of Latin-1 beyond a-z whose upper case is one Latin-1
\* character: U+00E0..U+00FE without the division sign, and U+00C0..U+00DE
\* without the multiplication sign.  (The sharp s has no one-character upper
\* case; the upper case of the y with diaeresis and of the micro sign lies
\* outside Latin-1, as do all other cased letters: such characters cannot be
\* written in a string of this module and no text of the model holds one.)
LowerCaseLatin1 == <<"à", "á", "â", "ã", "ä", "å", "æ", "ç", "è", "é",
                    "ê", "ë", "ì", "í", "î", "ï", "ð", "ñ", "ò", "ó",
                    "ô", "õ", "ö", "ø", "ù", "ú", "û", "ü", "ý", "þ">>

UpperCaseLatin1 == <<"À", "Á", "Â", "Ã", "Ä", "Å", "Æ", "Ç", "È", "É",
                    "Ê", "Ë", "Ì", "Í", "Î", "Ï", "Ð", "Ñ", "Ò", "Ó",
                    "Ô", "Õ", "Ö", "Ø", "Ù", "Ú", "Û", "Ü", "Ý", "Þ">>

\* toUpperCase on the letters
UpperOf ==
    LET lower == LowerCase \o LowerCaseLatin1
        upper == UpperCase \o UpperCaseLatin1
    IN  [ c \in Range(lower) |-> upper[CHOOSE k \in 1..Len(lower) : lower[k] = c] ]

\* the 'i' flag (without 'u'): characters are compared after canonicalisation,
\* which is toUpperCase where that gives one character
Canonicalize(c) == IF c \in DOMAIN UpperOf THEN UpperOf[c] ELSE c

\* the class [.*+?^${}()|[\]\\] of escapeRegExp
RegExpSpecial == { ".", "*", "+", "?", "^", "$", "{", "}", "(", ")", "|", "[", "]", "\\" }

RECURSIVE escapeRegExp(_)
\* string.replace(/[.*+?^${}()|[\]\\]/g, '\\$&')
escapeRegExp(string) ==
    IF string = <<>> THEN <<>>
    ELSE (IF Head(string) \in RegExpSpecial
          THEN <<"\\", Head(string)>>
          ELSE <<Head(string)>>) \o escapeRegExp(Tail(string))

RECURSIVE flexParens(_)
\* title.replace(/([()])/g, '\\\\?$1'): every parenthesis of the (already
\* escaped) title gets the three characters \\? put in front of it
flexParens(string) ==
    IF string = <<>> THEN <<>>
    ELSE (IF Head(string) \in { "(", ")" }
          THEN <<"\\", "\\", "?", Head(string)>>
          ELSE <<Head(string)>>) \o flexParens(Tail(string))

\* the source of capture group 1 of the scan's RegExp
titlePattern(title) == flexParens(escapeRegExp(title))

RECURSIVE Atoms(_)
\* How the RegExp parser reads a pattern source in which every special
\* character other than a parenthesis is escaped: \x is the literal x,
\* ( opens a group, ) closes one, anything else is a literal.
Atoms(src) ==
    IF src = <<>> THEN <<>>
    ELSE IF Head(src) = "\\" /\ Len(src) >= 2
         THEN <<[k |-> "lit", c |-> src[2]]>> \o Atoms(Tail(Tail(src)))
    ELSE IF Head(src) = "("
         THEN <<[k |-> "open", c |-> "("]>> \o Atoms(Tail(src))
    ELSE IF Head(src) = ")"
         THEN <<[k |-> "close", c |-> ")"]>> \o Atoms(Tail(src))
    ELSE <<[k |-> "lit", c |-> Head(src)]>> \o Atoms(Tail(src))

\* the atoms between the lookbehind and the lookahead: ( title pattern )
scanAtoms(title) ==
    <<[k |-> "open", c |-> "("]>> \o Atoms(titlePattern(title))
        \o <<[k |-> "close", c |-> ")"]>>

\* nesting depth after the first n atoms
Depth(atoms, n) ==
    Cardinality({ i \in 1..n : atoms[i].k = "open" })
        - Cardinality({ i \in 1..n : atoms[i].k = "close" })

\* new RegExp(...) raises a SyntaxError on a ) that closes nothing and on a
\* group left open
regExpCompiles(atoms) ==
    /\ \A n \in 1..Len(atoms) : Depth(atoms, n) >= 0
    /\ Depth(atoms, Len(atoms)) = 0

\* the characters a match consumes, in order (no atom is quantified)
Literals(atoms) ==
    LET isLit(a) == a.k = "lit"
        lits == SelectSeq(atoms, isLit)
    IN  [ i \in 1..Len(lits) |-> lits[i].c ]

\* how many of them lie in capture group 1, the group the first atom opens
group1Length(atoms) ==
    LET closing == CHOOSE n \in 1..Len(atoms) :
                       /\ Depth(atoms, n) = 0
                       /\ \A m \in 1..(n - 1) : Depth(atoms, m) > 0
    IN  Cardinality({ i \in 1..closing : atoms[i].k = "lit" })

\* (?<!\[\[) at offset p: the two characters before p are not [[
lookbehindOk(text, p) == ~(p >= 2 /\ text[p - 1] = "[" /\ text[p] = "[")

\* (?!\|?\]\]) at offset e: what follows is neither ]] nor |]]
lookaheadOk(text, e) ==
    LET rest == Slice(text, e, Len(text))
    IN  /\ ~StartsWith(rest, <<"]", "]">>)
        /\ ~StartsWith(rest, <<"|", "]", "]">>)

\* the RegExp matches at offset p (0-based) of text
matchAt(text, lits, p) ==
    /\ p + Len(lits) <= Len(text)
    /\ lookbehindOk(text, p)
    /\ \A k \in 1..Len(lits) : Canonicalize(text[p + k]) = Canonicalize(lits[k])
    /\ lookaheadOk(text, p + Len(lits))

RECURSIVE execAll(_, _, _)
\* while ((match = regex.exec(content)) !== null): the starts of the matches
\* the 'g' loop finds from lastIndex on; each search resumes at the end of the
\* previous match.  (An empty match leaves lastIndex where it is: the loop
\* then never ends, see scanHangsAt; execAll is not used in that case.)
execAll(text, lits, lastIndex) ==
    LET found == { p \in lastIndex..(Len(text) - Len(lits)) : matchAt(text, lits, p) }
    IN  IF found = {} \/ lits = <<>> THEN <<>>
        ELSE LET p == CHOOSE q \in found : \A r \in found : q <= r
             IN  <<p>> \o execAll(text, lits, p + Len(lits))

\* the detectedLinks.push({...}) of one match of one note
Occurrence(text, note, atoms, p) ==
    LET originalText == Slice(text, p, p + group1Length(atoms))
        after == p + Len(originalText)
    IN  [ title         |-> note.title,
          context       |-> Slice(text, Max(0, p - contextRadius), p) \o originalText
                               \o Slice(text, after, after + contextRadius),
          originalMatch |-> originalText,
          notePath      |-> note.path,
          matchIndex    |-> <<p, p + Len(Literals(atoms))>> ]

\* the body of the for loop for one note
linksOfNote(text, note) ==
    LET atoms == scanAtoms(note.title)
        lits == Literals(atoms)
        starts == execAll(text, lits, 0)
    IN  [ i \in 1..Len(starts) |-> Occurrence(text, note, atoms, starts[i]) ]

RECURSIVE discovered(_, _)
\* detectedLinks before the sort: note by note, each left to right
discovered(text, notes) ==
    IF notes = <<>> THEN <<>>
    ELSE linksOfNote(text, Head(notes)) \o discovered(text, Tail(notes))

RECURSIVE insertBeforeEqual(_, _)
\* insertSorted with < for <=: an occurrence is put before those that start
\* where it starts, so ties come out in reverse discovery order
insertBeforeEqual(sorted, x) ==
    IF sorted = <<>> THEN <<x>>
    ELSE IF Head(sorted).matchIndex[1] < x.matchIndex[1]
         THEN <<Head(sorted)>> \o insertBeforeEqual(Tail(sorted), x)
         ELSE <<x>> \o sorted

RECURSIVE insertSorted(_, _)
\* insert x after every element that does not start later than it
insertSorted(sorted, x) ==
    IF sorted = <<>> THEN <<x>>
    ELSE IF Head(sorted).matchIndex[1] <= x.matchIndex[1]
         THEN <<Head(sorted)>> \o insertSorted(Tail(sorted), x)
         ELSE <<x>> \o sorted

RECURSIVE sortLinksFrom(_, _)
sortLinksFrom(sorted, links) ==
    IF links = <<>> THEN sorted
    ELSE sortLinksFrom(insertSorted(sorted, Head(links)), Tail(links))

\* detectedLinks.sort((a, b) => a.matchIndex[0] - b.matchIndex[0]); the sort is
\* stable (ECMAScript 2019)
sortLinks(links) == sortLinksFrom(<<>>, links)

\* new RegExp raises for this note's title
scanThrowsAt(notes, i) == ~regExpCompiles(scanAtoms(notes[i].title))

\* the exec loop never ends for this note: an empty pattern matches without
\* moving lastIndex
scanHangsAt(text, notes, i) ==
    LET atoms == scanAtoms(notes[i].title)
    IN  /\ regExpCompiles(atoms)
        /\ Literals(atoms) = <<>>
        /\ \E p \in 0..Len(text) : matchAt(text, <<>>, p)

\* what a call of detectPotentialLinks does: "returns", "throws" or "hangs"
scanOutcome(text, notes) ==
    LET bad == { i \in 1..Len(notes) : scanThrowsAt(notes, i) \/ scanHangsAt(text, notes, i) }
    IN  IF bad = {} THEN "returns"
        ELSE LET first == CHOOSE i \in bad : \A j \in bad : i <= j
             IN  IF scanThrowsAt(notes, first) THEN "throws" ELSE "hangs"

\* detectPotentialLinks(content), reading this.noteTitlesCache = notes
detectPotentialLinks(text, notes) == sortLinks(discovered(text, notes))

(***************************************************************************)
(* The rewrite: insertLinks and the regular expression it builds.          *)
(***************************************************************************)
\* the class \w
WordChars == Range(LowerCase) \cup Range(UpperCase) \cup Range(Digits) \cup { "_" }

\* \b at offset p: of the characters before and after p, one is a word
\* character and the other is not (or is not there)
wordBoundaryAt(text, p) ==
    LET before == p >= 1 /\ text[p] \in WordChars
        after  == p < Len(text) /\ text[p + 1] \in WordChars
    IN  before # after

\* the atoms between the two \b of the rewrite's RegExp
rewriteAtoms(originalText) == Atoms(flexParens(escapeRegExp(originalText)))

\* the rewrite's RegExp matches at offset p (0-based) of text
wholeWordAt(text, lits, p) ==
    /\ p + Len(lits) <= Len(text)
    /\ wordBoundaryAt(text, p)
    /\ \A k \in 1..Len(lits) : Canonicalize(text[p + k]) = Canonicalize(lits[k])
    /\ wordBoundaryAt(text, p + Len(lits))

\* replacement with enableWikiLinks set but respectCase not looked at
replacementAnyCase(link, options) ==
    IF options.enableWikiLinks /\ link.originalMatch # link.title
    THEN <<"[", "[">> \o link.title \o <<"|">> \o link.originalMatch \o <<"]", "]">>
    ELSE <<"[", "[">> \o link.title \o <<"]", "]">>

\* insertLinks: the replacement string of one link
replacement(link, options) ==
    IF options.enableWikiLinks
    THEN IF link.originalMatch # link.title /\ options.respectCase
         THEN <<"[", "[">> \o link.title \o <<"|">> \o link.originalMatch \o <<"]", "]">>
         ELSE <<"[", "[">> \o link.title \o <<"]", "]">>
    ELSE <<"[", "[">> \o link.title \o <<"]", "]">>

\* the apostrophe
Apostrophe == "'"

\* the grave accent, taken out of a two-character string: a string constant
\* cannot end right after a grave accent
GraveAccent == SubSeq("`'", 1, 1)

RECURSIVE GetSubstitution(_, _, _, _)
\* what String.prototype.replace puts in place of a match at offset p: the
\* replacement string with $$, $&, $` and $' expanded.  ($1.. stay as they
\* are: the pattern of an occurrence the scan emitted has no group.)
GetSubstitution(string, matched, text, p) ==
    IF string = <<>> THEN <<>>
    ELSE IF Head(string) = "$" /\ Len(string) >= 2
                /\ string[2] \in { "$", "&", GraveAccent, Apostrophe }
         THEN (CASE string[2] = "$" -> <<"$">>
                 [] string[2] = "&" -> matched
                 [] string[2] = GraveAccent -> Slice(text, 0, p)
                 [] string[2] = Apostrophe -> Slice(text, p + Len(matched), Len(text)))
              \o GetSubstitution(Tail(Tail(string)), matched, text, p)
    ELSE <<Head(string)>> \o GetSubstitution(Tail(string), matched, text, p)

RECURSIVE replaceFrom(_, _, _, _)
\* content.replace(regex, replacement) with the g flag, from lastIndex on:
\* the matches are found left to right in the text as it was, each search
\* resuming at the end of the previous match (one further on after an empty
\* match)
replaceFrom(text, lits, string, lastIndex) ==
    LET found == { p \in lastIndex..(Len(text) - Len(lits)) : wholeWordAt(text, lits, p) }
    IN  IF found = {} THEN Slice(text, lastIndex, Len(text))
        ELSE LET p == CHOOSE q \in found : \A r \in found : q <= r
                 matched == Slice(text, p, p + Len(lits))
                 put == Slice(text, lastIndex, p) \o GetSubstitution(string, matched, text, p)
             IN  IF lits # <<>>
                 THEN put \o replaceFrom(text, lits, string, p + Len(lits))
                 ELSE IF p < Len(text)
                      THEN put \o <<text[p + 1]>> \o replaceFrom(text, lits, string, p + 1)
                      ELSE put

\* the body of linksToInsert.forEach for one link
replaceLink(text, link, options) ==
    replaceFrom(text, Literals(rewriteAtoms(link.originalMatch)),
                replacement(link, options), 0)

RECURSIVE insertLinksText(_, _, _)
\* insertLinks: the text it writes, from the text it read
insertLinksText(text, links, options) ==
    IF links = <<>> THEN text
    ELSE insertLinksText(replaceLink(text, Head(links), options), Tail(links), options)

\* the number of places of the text where [[ stands
References(text) ==
    Cardinality({ p \in 1..(Len(text) - 1) : text[p] = "[" /\ text[p + 1] = "[" })

\* Array.from(this.checkedLinks)
linksToInsert(links, checked) == [ i \in 1..Len(checked) |-> links[checked[i]] ]

(***************************************************************************)
(* The index operations.                                                   *)
(***************************************************************************)
\* updateCache: the entries it pushes while iterating getAllLoadedFiles()
updateCacheEntries(files, excluded) ==
    LET keep(f) == ~isExcluded(f, excluded) /\ f.isTFile /\ f.extension = MD
    IN  Entries(SelectSeq(files, keep))

\* notesToIndex without the excluded-folder filter
notesToIndexUnfiltered(files, excluded) == getMarkdownFiles(files)

\* indexNotes: allNotes.filter(note => !excludedFolders.some(...))
notesToIndex(files, excluded) ==
    LET keep(f) == ~isExcluded(f, excluded)
    IN  SelectSeq(getMarkdownFiles(files), keep)

\* batchEntries with the for loop starting one note late
batchEntriesFromNext(notes, startIndex) ==
    LET end == Min(startIndex + batchSize, Len(notes))
    IN  [ i \in 1..(end - startIndex - 1) |-> TitleEntry(notes[startIndex + i + 1]) ]

\* processBatch(startIndex): the entries its for loop pushes
batchEntries(notes, startIndex) ==
    LET end == Min(startIndex + batchSize, Len(notes))
    IN  [ i \in 1..(end - startIndex) |-> TitleEntry(notes[startIndex + i]) ]

\* processBatch(startIndex): another batch is scheduled
moreBatches(notes, startIndex) == startIndex + batchSize < Len(notes)

\* needsIndexing with the test of the flag left out
needsIndexingAlways(fresh) == TRUE

\* runNoteLinker: if (!this.cacheUpToDate)
needsIndexing(fresh) == ~fresh

\* reachesIndexing with the index handled before the text is read
reachesIndexingUnread(activeView, readOk) == activeView

\* runNoteLinker: control gets to the test of cacheUpToDate, past the return
\* for no active view and past the read of the note
reachesIndexing(activeView, readOk) == activeView /\ readOk

\* createdIsIndexed without the excluded-folder test
createdIsIndexedAnyFolder(file, excluded) == file.extension = MD

\* createdIsIndexed without the extension test
createdIsIndexedAnyExtension(file, excluded) == ~isExcluded(file, excluded)

\* onFileCreated: the file is pushed
createdIsIndexed(file, excluded) ==
    /\ file.extension = MD
    /\ ~isExcluded(file, excluded)

\* withoutPath comparing each note's path with the file object instead of its
\* path: nothing is equal, nothing is removed
withoutPathKeepsAll(cache, file) == cache

\* onFileDeleted: noteTitlesCache.filter(note => note.path !== file.path)
withoutPath(cache, file) ==
    LET keep(note) == note.path # file.path
    IN  SelectSeq(cache, keep)

(***************************************************************************)
(* What the model records about a step, for the properties.                *)
(***************************************************************************)
NoFile == [ path |-> <<>>, basename |-> <<>>, extension |-> <<>>, isTFile |-> FALSE ]

Event(op, file) == [ op |-> op, file |-> file ]

NoRebuild == [ completed |-> FALSE, snapshots |-> {}, alone |-> FALSE, progress |-> "none" ]

\* a rebuild that set cacheUpToDate in this step
Completed(snapshots, alone, progress) ==
    [ completed |-> TRUE, snapshots |-> snapshots, alone |-> alone, progress |-> progress ]

\* a qualifying path set, written as what it adds to and what it lacks of the
\* paths of a rebuild's notesToIndex
Change(notes, paths) ==
    LET start == { notes[i].path : i \in 1..Len(notes) }
    IN  <<paths \ start, start \ paths>>

\* a pending processBatch callback: its closure (notesToIndex, startIndex, the
\* progress modal: "closed" if runNoteLinker went on to progressModal.close(),
\* "open" if it left through its catch block, which does not close it) and,
\* for the properties, the qualifying path sets the collection went through
\* since indexNotes started (as changes to notesToIndex) and whether anything
\* else ran since
Timer(notes, startIndex, alone, progress) ==
    [ notesToIndex |-> notes, startIndex |-> startIndex, progress |-> progress,
      changes |-> { <<{}, {}>> }, alone |-> alone ]

\* the qualifying path sets a pending rebuild has seen
SnapshotsOf(t) ==
    LET start == { t.notesToIndex[i].path : i \in 1..Len(t.notesToIndex) }
    IN  { (start \ c[2]) \cup c[1] : c \in t.changes }

\* another operation ran while these rebuilds were pending
Disturbed(pending, files, excluded) ==
    IF pending = <<>> THEN pending
    ELSE LET now == QualifyingPaths(files, excluded)
         IN  [ i \in 1..Len(pending) |->
                 [ pending[i] EXCEPT
                     !.alone = FALSE,
                     !.changes = @ \cup { Change(pending[i].notesToIndex, now) } ] ]

(***************************************************************************)
(* The settings, the active note and the result browser.                   *)
(***************************************************************************)
\* the defaults of loadSettings (excludedFolders is the variable of that name)
DefaultSettings ==
    [ pageSize           |-> 10,
      enableWikiLinks    |-> FALSE,
      respectCase        |-> FALSE,
      excludeFrontmatter |-> TRUE ]

\* Object.assign({defaults}, await this.loadData()): every key of the stored
\* data is taken, also one no code reads
loadSettings(data) == data @@ DefaultSettings

\* editor.getSelection() is the empty string
NoSelection == <<0, 0>>

\* what a run of runNoteLinker took its text from and what it scanned, for the
\* properties
Scanned(document, range, text) ==
    [ document |-> document, selection |-> range, content |-> text ]

\* new LinkSelectionModal(app, potentialLinks, activeFile, editor, plugin).open():
\* the modal keeps the occurrences it was given; checkedLinks holds positions
\* in them, in insertion order.  id tells the modal objects apart.
LinkSelectionModal(id, links, pageSize, scanned) ==
    [ id |-> id, potentialLinks |-> links, checkedLinks |-> <<>>, currentPage |-> 0,
      pageSize |-> IF pageSize = 0 THEN 10 ELSE pageSize, scanned |-> scanned ]

\* an async function suspended at an await of the vault: runNoteLinker at
\* vault.read (op "scanread"), insertLinks at vault.read (op "insertread") and
\* at vault.modify (op "modify"), with what its closure holds: the modal that
\* called insertLinks, linksToInsert, the text handed to vault.modify; and, for
\* the properties, cacheUpToDate as it was when runNoteLinker was called and
\* what the modal's scan had read
Suspended(op, fresh, modal, links, data, scanned) ==
    [ op |-> op, fresh |-> fresh, modal |-> modal, links |-> links, data |-> data,
      scanned |-> scanned ]

NothingScanned == Scanned(<<>>, NoSelection, <<>>)

\* the sequence without its k-th element
Remove(s, k) == SubSeq(s, 1, k - 1) \o SubSeq(s, k + 1, Len(s))

\* the calls of runNoteLinker that are waiting for their read
Requests(ops) == Len(SelectSeq(ops, LAMBDA o : o.op = "scanread"))

\* the least id no open modal and no suspended insertLinks has
NewId(open, ops) ==
    LET used == { open[m].id : m \in 1..Len(open) } \cup { ops[k].modal : k \in 1..Len(ops) }
    IN  CHOOSE n \in 1..(Cardinality(used) + 1) :
            /\ n \notin used
            /\ \A j \in 1..(n - 1) : j \in used

\* Math.ceil(this.potentialLinks.length / this.pageSize)
totalPages(total, pageSize) == (total + pageSize - 1) \div pageSize

\* changePage without the wrap around
changePageUnwrapped(currentPage, delta, pages) == currentPage + delta

\* changePage: (this.currentPage + delta + totalPages) % totalPages
changePage(currentPage, delta, pages) == (currentPage + delta + pages) % pages

\* the positions in potentialLinks of slice(start, end) of displayLinks and of
\* selectAllOnPage, first to last
linksToShow(currentPage, pageSize, total) ==
    LET start == currentPage * pageSize
        end   == Min(start + pageSize, total)
    IN  [ i \in 1..Max(0, end - start) |-> start + i ]

RECURSIVE addAll(_, _)
\* links.forEach(linkObj => this.checkedLinks.add(linkObj)): a Set keeps what
\* it has where it is and puts what is new at the end
addAll(checked, links) ==
    IF links = <<>> THEN checked
    ELSE addAll(IF \E k \in 1..Len(checked) : checked[k] = Head(links)
                THEN checked
                ELSE Append(checked, Head(links)),
                Tail(links))

\* the first match of /^---[\s\S]+?---\n/: offset 0 (no m flag), the three
\* dashes, as few characters as possible but one at least, three dashes and a
\* newline.  The offset the match ends at, or 0 if there is none.
frontmatterEnd(text) ==
    LET dashes == <<"-", "-", "-">>
        closers == { q \in 4..(Len(text) - 4) :
                        SubSeq(text, q + 1, q + 4) = dashes \o <<"\n">> }
    IN  IF StartsWith(text, dashes) /\ closers # {}
        THEN (CHOOSE q \in closers : \A r \in closers : q <= r) + 4
        ELSE 0

\* removeFrontmatter: content.replace(frontmatterRegex, '')
removeFrontmatter(text) == Slice(text, frontmatterEnd(text), Len(text))

\* selectedText ? selectedText : await this.app.vault.read(activeFile)
textToScan(document, range) ==
    IF range[1] < range[2] THEN Slice(document, range[1], range[2]) ELSE document

\* runNoteLinker up to the progress modal: the text it will scan
contentToScan(document, range, excludeFrontmatter) ==
    IF excludeFrontmatter
    THEN removeFrontmatter(textToScan(document, range))
    ELSE textToScan(document, range)

(***************************************************************************)
(* The plugin against the vault.                                           *)
(***************************************************************************)
Init ==
    /\ loaded = FALSE
    /\ vault \in InitialVaults
    /\ excludedFolders \in ExcludedChoices
    /\ noteTitlesCache = <<>>
    /\ cacheUpToDate = FALSE
    /\ timers = <<>>
    /\ content = <<>>
    /\ potentialLinks = <<>>
    /\ event = Event("new", NoFile)
    /\ done = NoRebuild
    /\ settings = DefaultSettings
    /\ respectCaseShown = FALSE
    /\ stored = <<>>
    /\ selection = NoSelection
    /\ modals = <<>>
    /\ awaiting = <<>>
    /\ replacements = <<>>

\* onload: loadSettings, then loadCache.  No code path calls saveCache, so the
\* stored data never holds a cache and loadCache always runs updateCache.
OnLoad ==
    /\ ~loaded
    /\ loaded' = TRUE
    /\ IF ~cacheUpToDate
       THEN /\ noteTitlesCache' = updateCacheEntries(vault, excludedFolders)
            /\ cacheUpToDate' = TRUE
       ELSE UNCHANGED <<noteTitlesCache, cacheUpToDate>>
    /\ event' = Event("load", NoFile)
    /\ done' = NoRebuild
    /\ UNCHANGED <<vault, excludedFolders, timers, content, potentialLinks>>
    /\ UNCHANGED noteVars

\* vault 'create': the file joins the collection and onFileCreated runs
OnFileCreated(file) ==
    /\ loaded
    /\ \A i \in 1..Len(vault) : vault[i].path # file.path
    /\ vault' = Append(vault, file)
    /\ IF createdIsIndexed(file, excludedFolders)
       THEN /\ noteTitlesCache' = Append(noteTitlesCache, TitleEntry(file))
            /\ cacheUpToDate' = FALSE
       ELSE UNCHANGED <<noteTitlesCache, cacheUpToDate>>
    /\ timers' = Disturbed(timers, vault', excludedFolders)
    /\ event' = Event("create", file)
    /\ done' = NoRebuild
    /\ UNCHANGED <<loaded, excludedFolders, content, potentialLinks>>
    /\ UNCHANGED noteVars

\* vault 'delete': the file leaves the collection and onFileDeleted runs
OnFileDeleted(file) ==
    /\ loaded
    /\ \E i \in 1..Len(vault) : vault[i] = file
    /\ vault' = SelectSeq(vault, LAMBDA f : f # file)
    /\ noteTitlesCache' = withoutPath(noteTitlesCache, file)
    /\ cacheUpToDate' = FALSE
    /\ timers' = Disturbed(timers, vault', excludedFolders)
    /\ event' = Event("delete", file)
    /\ done' = NoRebuild
    /\ UNCHANGED <<loaded, excludedFolders, content, potentialLinks>>
    /\ UNCHANGED noteVars

\* the settings tab's Excluded Folders onChange
SetExcludedFolders(folders) ==
    /\ loaded
    /\ folders # excludedFolders
    /\ excludedFolders' = folders
    /\ timers' = Disturbed(timers, vault, folders)
    /\ event' = Event("settings", NoFile)
    /\ done' = NoRebuild
    /\ UNCHANGED <<loaded, vault, noteTitlesCache, cacheUpToDate, content, potentialLinks>>
    /\ UNCHANGED noteVars

\* runNoteLinker with no active markdown view: a notice, and return
RunNoteLinkerNoView ==
    /\ loaded
    /\ event' = Event("noview", NoFile)
    /\ done' = NoRebuild
    /\ UNCHANGED <<loaded, vault, excludedFolders, noteTitlesCache, cacheUpToDate,
                   timers, content, potentialLinks>>
    /\ UNCHANGED noteVars

\* runNoteLinker from the point where the content is read, with the index
\* fresh: detectPotentialLinks reads the cache as it is.  The scan is a pure
\* function of the content and of the cache in the state this step ends in; its
\* result is modelled in ScanSpec and left out of Spec.
RunNoteLinkerCached ==
    /\ loaded
    /\ cacheUpToDate
    /\ timers' = Disturbed(timers, vault, excludedFolders)
    /\ event' = Event("scan", NoFile)
    /\ done' = NoRebuild
    /\ UNCHANGED <<loaded, vault, excludedFolders, noteTitlesCache, cacheUpToDate,
                   content, potentialLinks>>
    /\ UNCHANGED noteVars

\* runNoteLinker with the index stale: indexNotes runs its first batch
\* synchronously and returns; its promise is already resolved, so the await
\* resumes before any timer or vault event, and detectPotentialLinks and
\* progressModal.close() follow in the same step.
RunNoteLinkerIndexingWithin(limit) ==
    /\ loaded
    /\ ~cacheUpToDate
    /\ LET notes == notesToIndex(vault, excludedFolders)
           alone == timers = <<>>
           now   == { QualifyingPaths(vault, excludedFolders) }
       IN  /\ noteTitlesCache' = batchEntries(notes, 0)
           /\ IF moreBatches(notes, 0)
              THEN /\ Len(timers) < limit
                   /\ timers' = Append(Disturbed(timers, vault, excludedFolders),
                                       Timer(notes, batchSize, alone, "closed"))
                   /\ done' = NoRebuild
                   /\ UNCHANGED cacheUpToDate
              ELSE /\ cacheUpToDate' = TRUE
                   /\ timers' = Disturbed(timers, vault, excludedFolders)
                   /\ done' = Completed(now, alone, "open")
    /\ event' = Event("indexscan", NoFile)
    /\ UNCHANGED <<loaded, vault, excludedFolders, content, potentialLinks>>
    /\ UNCHANGED noteVars

\* the same, with at most MaxRebuilds rebuilds pending
RunNoteLinkerIndexing == RunNoteLinkerIndexingWithin(MaxRebuilds)

\* the same, with at most MaxOverlap rebuilds pending
RunNoteLinkerOverlapping == RunNoteLinkerIndexingWithin(MaxOverlap)

\* runNoteLinker with an active view and nothing selected, up to
\* await this.app.vault.read(activeFile): the function is suspended and the
\* event loop goes on.  (At most limit functions are suspended, and at most
\* limit result browsers are open or about to be, at the same time.)
RunNoteLinkerRequest(limit) ==
    /\ loaded
    /\ selection = NoSelection
    /\ Len(awaiting) < limit
    /\ Len(modals) + Requests(awaiting) < limit
    /\ awaiting' = Append(awaiting, Suspended("scanread", cacheUpToDate, 0, <<>>, <<>>,
                                            NothingScanned))
    /\ timers' = Disturbed(timers, vault, excludedFolders)
    /\ event' = Event("request", NoFile)
    /\ done' = NoRebuild
    /\ replacements' = <<>>
    /\ UNCHANGED <<loaded, vault, excludedFolders, noteTitlesCache, cacheUpToDate,
                   content, potentialLinks, settings, respectCaseShown, stored,
                   selection, modals>>

\* runNoteLinker from the point where it has its text (the selection, or
\* what vault.read resolved with) to its end, leaving the functions rest
\* suspended: the frontmatter is removed if excluded; a stale index is
\* rebuilt as in RunNoteLinkerIndexing; the scan reads the index this leaves;
\* a result browser is opened above those that are open if there is an
\* occurrence.  If the scan raises, the catch block reports it: the index and
\* the flag are as the rebuild left them, no browser is opened, and the
\* progress modal stays open for the batches still to come.  (A scan
\* that never returns stops the event loop: see DetectPotentialLinksHangs.)
RunNoteLinkerFrom(document, range, rest) ==
    LET text  == contentToScan(document, range, settings.excludeFrontmatter)
        notes == notesToIndex(vault, excludedFolders)
        alone == timers = <<>>
        now   == { QualifyingPaths(vault, excludedFolders) }
        index == IF needsIndexing(cacheUpToDate)
                 THEN batchEntries(notes, 0)
                 ELSE noteTitlesCache
        outcome == scanOutcome(text, index)
    IN  /\ outcome # "hangs"
        /\ content' = text
        /\ noteTitlesCache' = index
        /\ IF ~needsIndexing(cacheUpToDate)
           THEN /\ timers' = Disturbed(timers, vault, excludedFolders)
                /\ done' = NoRebuild
                /\ UNCHANGED cacheUpToDate
           ELSE /\ IF moreBatches(notes, 0)
                   THEN /\ Len(timers) < MaxRebuilds
                        /\ timers' = Append(Disturbed(timers, vault, excludedFolders),
                                            Timer(notes, batchSize, alone,
                                                  IF outcome = "throws"
                                                  THEN "open" ELSE "closed"))
                        /\ done' = NoRebuild
                        /\ UNCHANGED cacheUpToDate
                   ELSE /\ cacheUpToDate' = TRUE
                        /\ timers' = Disturbed(timers, vault, excludedFolders)
                        /\ done' = Completed(now, alone, "open")
        /\ IF outcome = "throws"
           THEN /\ event' = Event("scanthrows", NoFile)
                /\ UNCHANGED <<potentialLinks, modals>>
           ELSE /\ event' = Event(IF cacheUpToDate THEN "scan" ELSE "indexscan", NoFile)
                /\ potentialLinks' = detectPotentialLinks(text, index)
                /\ modals' = IF potentialLinks' # <<>>
                             THEN Append(modals,
                                         LinkSelectionModal(NewId(modals, rest),
                                                            potentialLinks',
                                                            settings.pageSize,
                                                            Scanned(document, range, text)))
                             ELSE modals
        /\ awaiting' = rest
        /\ replacements' = <<>>
        /\ UNCHANGED <<loaded, vault, excludedFolders, settings, respectCaseShown,
                       stored, selection>>

\* runNoteLinker with a selection: the text is the selection, nothing is
\* awaited before the scan, and the whole function runs in one turn of the
\* event loop
RunNoteLinkerSelected(limit) ==
    /\ loaded
    /\ selection # NoSelection
    /\ Len(modals) + Requests(awaiting) < limit
    /\ RunNoteLinkerFrom(stored, selection, awaiting)

\* vault.read resolves for the k-th suspended function, a runNoteLinker: it
\* goes on with the note as it is in storage now
RunNoteLinkerScan(k) ==
    /\ awaiting[k].op = "scanread"
    /\ RunNoteLinkerFrom(stored, NoSelection, Remove(awaiting, k))

\* a checkbox of the page on display of the m-th browser is clicked: the link
\* joins checkedLinks, or leaves it.  (The model checks at most MaxChecked
\* links, and none of a note that holds more than MaxReferences references.)
ToggleLink(m, i) ==
    /\ References(stored) <= MaxReferences
    /\ (\A k \in 1..Len(modals[m].checkedLinks) : modals[m].checkedLinks[k] # i)
           => Len(modals[m].checkedLinks) < MaxChecked
    /\ i > modals[m].currentPage * modals[m].pageSize
    /\ i <= Min((modals[m].currentPage + 1) * modals[m].pageSize,
                Len(modals[m].potentialLinks))
    /\ modals' = [ modals EXCEPT ![m].checkedLinks =
                     IF \E k \in 1..Len(@) : @[k] = i
                     THEN SelectSeq(@, LAMBDA j : j # i)
                     ELSE Append(@, i) ]
    /\ timers' = Disturbed(timers, vault, excludedFolders)
    /\ event' = Event("toggle", NoFile)
    /\ done' = NoRebuild
    /\ replacements' = <<>>
    /\ UNCHANGED <<loaded, vault, excludedFolders, noteTitlesCache, cacheUpToDate,
                   content, potentialLinks, settings, respectCaseShown, stored,
                   selection, awaiting>>

\* changePage(delta) of the m-th browser, as Previous Page (delta -1) and
\* Next Page (delta 1) call it.  It runs on every page: updatePageButtons
\* assigns disabled on what Setting.then(...) returned, not on a button it was
\* handed.
ChangePage(m, delta) ==
    /\ modals' = [ modals EXCEPT ![m].currentPage =
                     changePage(@, delta, totalPages(Len(modals[m].potentialLinks),
                                                     modals[m].pageSize)) ]
    /\ timers' = Disturbed(timers, vault, excludedFolders)
    /\ event' = Event("page", NoFile)
    /\ done' = NoRebuild
    /\ replacements' = <<>>
    /\ UNCHANGED <<loaded, vault, excludedFolders, noteTitlesCache, cacheUpToDate,
                   content, potentialLinks, settings, respectCaseShown, stored,
                   selection, awaiting>>

\* Select All of the m-th browser is clicked
SelectAll(m) ==
    /\ modals' = [ modals EXCEPT ![m].checkedLinks =
                     addAll(@, [ i \in 1..Len(modals[m].potentialLinks) |-> i ]) ]
    /\ timers' = Disturbed(timers, vault, excludedFolders)
    /\ event' = Event("selectall", NoFile)
    /\ done' = NoRebuild
    /\ replacements' = <<>>
    /\ UNCHANGED <<loaded, vault, excludedFolders, noteTitlesCache, cacheUpToDate,
                   content, potentialLinks, settings, respectCaseShown, stored,
                   selection, awaiting>>

\* Select All on This Page of the m-th browser is clicked
SelectAllOnPage(m) ==
    /\ modals' = [ modals EXCEPT ![m].checkedLinks =
                     addAll(@, linksToShow(modals[m].currentPage, modals[m].pageSize,
                                           Len(modals[m].potentialLinks))) ]
    /\ timers' = Disturbed(timers, vault, excludedFolders)
    /\ event' = Event("selectpage", NoFile)
    /\ done' = NoRebuild
    /\ replacements' = <<>>
    /\ UNCHANGED <<loaded, vault, excludedFolders, noteTitlesCache, cacheUpToDate,
                   content, potentialLinks, settings, respectCaseShown, stored,
                   selection, awaiting>>

\* Confirm of the m-th browser is clicked: LinkSelectionModal.insertLinks
\* copies checkedLinks and calls plugin.insertLinks, which is suspended at
\* await this.app.vault.read(activeFile).  The browser stays open.  (Notes
\* that hold more than MaxReferences references are not rewritten in the
\* model.)
Confirm(limit, m) ==
    /\ References(stored) <= MaxReferences
    /\ Len(awaiting) < limit
    /\ awaiting' = Append(awaiting,
                         Suspended("insertread", FALSE, modals[m].id,
                                   linksToInsert(modals[m].potentialLinks,
                                                 modals[m].checkedLinks),
                                   <<>>, modals[m].scanned))
    /\ timers' = Disturbed(timers, vault, excludedFolders)
    /\ event' = Event("confirm", NoFile)
    /\ done' = NoRebuild
    /\ replacements' = <<>>
    /\ UNCHANGED <<loaded, vault, excludedFolders, noteTitlesCache, cacheUpToDate,
                   content, potentialLinks, settings, respectCaseShown, stored,
                   selection, modals>>

\* vault.read resolves for the k-th suspended function, an insertLinks: in
\* the note as it is in storage now each link's text is replaced throughout,
\* with the settings as they are now, and the function is suspended again at
\* await this.app.vault.modify(activeFile, content).  If new RegExp raises,
\* the function ends there: nothing is written and close() is not called.
\* (It waits while the note holds more than limit references.)
InsertLinks(limit, k) ==
    /\ awaiting[k].op = "insertread"
    /\ References(stored) <= limit
    /\ LET links == awaiting[k].links
       IN  IF \A i \in 1..Len(links) : regExpCompiles(rewriteAtoms(links[i].originalMatch))
           THEN /\ awaiting' = Append(Remove(awaiting, k),
                                     Suspended("modify", FALSE, awaiting[k].modal, links,
                                               insertLinksText(stored, links, settings),
                                               awaiting[k].scanned))
                /\ replacements' = [ i \in 1..Len(links) |-> replacement(links[i], settings) ]
                /\ event' = Event("insert", NoFile)
           ELSE /\ awaiting' = Remove(awaiting, k)
                /\ replacements' = <<>>
                /\ event' = Event("insertthrows", NoFile)
    /\ timers' = Disturbed(timers, vault, excludedFolders)
    /\ done' = NoRebuild
    /\ UNCHANGED <<loaded, vault, excludedFolders, noteTitlesCache, cacheUpToDate,
                   content, potentialLinks, settings, respectCaseShown, stored,
                   selection, modals>>

\* vault.modify resolves for the k-th suspended function: the text it was
\* handed is the note in storage, insertLinks shows its notice and returns,
\* and LinkSelectionModal.insertLinks closes its browser (if it is still
\* open)
InsertLinksWritten(k) ==
    /\ awaiting[k].op = "modify"
    /\ stored' = awaiting[k].data
    /\ modals' = SelectSeq(modals, LAMBDA modal : modal.id # awaiting[k].modal)
    /\ awaiting' = Remove(awaiting, k)
    /\ timers' = Disturbed(timers, vault, excludedFolders)
    /\ event' = Event("written", NoFile)
    /\ done' = NoRebuild
    /\ replacements' = <<>>
    /\ UNCHANGED <<loaded, vault, excludedFolders, noteTitlesCache, cacheUpToDate,
                   content, potentialLinks, settings, respectCaseShown, selection>>

\* the m-th browser is closed without Confirm (Modal.close(), which calls
\* onClose): a function it has suspended goes on
CloseModal(m) ==
    /\ modals' = Remove(modals, m)
    /\ timers' = Disturbed(timers, vault, excludedFolders)
    /\ event' = Event("close", NoFile)
    /\ done' = NoRebuild
    /\ replacements' = <<>>
    /\ UNCHANGED <<loaded, vault, excludedFolders, noteTitlesCache, cacheUpToDate,
                   content, potentialLinks, settings, respectCaseShown, stored,
                   selection, awaiting>>

\* runNoteLinker from the point where vault.read rejects, leaving the
\* functions rest suspended: the catch block reports it.  Whatever the
\* function did before the read stays done.
RunNoteLinkerReadFailsFrom(rest) ==
    /\ LET notes == notesToIndex(vault, excludedFolders)
           alone == timers = <<>>
           now   == { QualifyingPaths(vault, excludedFolders) }
       IN  IF reachesIndexing(TRUE, FALSE) /\ needsIndexing(cacheUpToDate)
           THEN /\ noteTitlesCache' = batchEntries(notes, 0)
                /\ IF moreBatches(notes, 0)
                   THEN /\ Len(timers) < MaxRebuilds
                        /\ timers' = Append(Disturbed(timers, vault, excludedFolders),
                                            Timer(notes, batchSize, alone, "open"))
                        /\ done' = NoRebuild
                        /\ UNCHANGED cacheUpToDate
                   ELSE /\ cacheUpToDate' = TRUE
                        /\ timers' = Disturbed(timers, vault, excludedFolders)
                        /\ done' = Completed(now, alone, "open")
           ELSE /\ timers' = Disturbed(timers, vault, excludedFolders)
                /\ done' = NoRebuild
                /\ UNCHANGED <<noteTitlesCache, cacheUpToDate>>
    /\ event' = Event("readfail", NoFile)
    /\ awaiting' = rest
    /\ replacements' = <<>>
    /\ UNCHANGED <<loaded, vault, excludedFolders, content, potentialLinks, settings,
                   respectCaseShown, stored, selection, modals>>

\* the same in Spec, which does not follow the calls of runNoteLinker to
\* their read: like RunNoteLinkerCached and RunNoteLinkerIndexing it is the
\* step a call takes when its read has settled
RunNoteLinkerReadFails ==
    /\ loaded
    /\ selection = NoSelection
    /\ RunNoteLinkerReadFailsFrom(awaiting)

\* vault.read rejects for the k-th suspended function, a runNoteLinker
RunNoteLinkerReadRejected(k) ==
    /\ awaiting[k].op = "scanread"
    /\ RunNoteLinkerReadFailsFrom(Remove(awaiting, k))

\* the note is changed in storage by something else than the plugin (the
\* editor saving, a synchronisation); the selection stays where it is
ModifyStored(text) ==
    /\ text # stored
    /\ selection[2] <= Len(text)
    /\ stored' = text
    /\ timers' = Disturbed(timers, vault, excludedFolders)
    /\ event' = Event("modify", NoFile)
    /\ done' = NoRebuild
    /\ replacements' = <<>>
    /\ UNCHANGED <<loaded, vault, excludedFolders, noteTitlesCache, cacheUpToDate,
                   content, potentialLinks, settings, respectCaseShown, selection,
                   modals, awaiting>>

\* the settings tab is displayed: the Respect Case toggle is made only if
\* enableWikiLinks is set at that time
DisplaySettings ==
    /\ loaded
    /\ respectCaseShown # settings.enableWikiLinks
    /\ respectCaseShown' = settings.enableWikiLinks
    /\ timers' = Disturbed(timers, vault, excludedFolders)
    /\ event' = Event("display", NoFile)
    /\ done' = NoRebuild
    /\ replacements' = <<>>
    /\ UNCHANGED <<loaded, vault, excludedFolders, noteTitlesCache, cacheUpToDate,
                   content, potentialLinks, settings, stored, selection, modals,
                   awaiting>>

\* an onChange of the settings tab assigns one key of this.settings
SetSettings(changed) ==
    /\ loaded
    /\ changed # settings
    /\ settings' = changed
    /\ timers' = Disturbed(timers, vault, excludedFolders)
    /\ event' = Event("settings", NoFile)
    /\ done' = NoRebuild
    /\ replacements' = <<>>
    /\ UNCHANGED <<loaded, vault, excludedFolders, noteTitlesCache, cacheUpToDate,
                   content, potentialLinks, respectCaseShown, stored, selection,
                   modals, awaiting>>

\* the Page Size slider's onChange
SetPageSize(value) == SetSettings([ settings EXCEPT !.pageSize = value ])

\* the Exclude Frontmatter toggle's onChange
SetExcludeFrontmatter(value) == SetSettings([ settings EXCEPT !.excludeFrontmatter = value ])

\* the Enable WikiLinks with Display Text toggle's onChange
SetEnableWikiLinks(value) == SetSettings([ settings EXCEPT !.enableWikiLinks = value ])

\* the Respect Case toggle's onChange
SetRespectCase(value) ==
    /\ respectCaseShown
    /\ SetSettings([ settings EXCEPT !.respectCase = value ])

\* the oldest pending timer fires: processBatch(startIndex)
ProcessBatch ==
    /\ timers # <<>>
    /\ LET t == Head(timers)
       IN  /\ noteTitlesCache' = noteTitlesCache \o batchEntries(t.notesToIndex, t.startIndex)
           /\ IF moreBatches(t.notesToIndex, t.startIndex)
              THEN /\ timers' = Append(Tail(timers),
                                       [ t EXCEPT !.startIndex = @ + batchSize ])
                   /\ done' = NoRebuild
                   /\ UNCHANGED cacheUpToDate
              ELSE /\ timers' = Tail(timers)
                   /\ cacheUpToDate' = TRUE
                   /\ done' = Completed(SnapshotsOf(t), t.alone, t.progress)
    /\ event' = Event("batch", NoFile)
    /\ UNCHANGED <<loaded, vault, excludedFolders, content, potentialLinks>>
    /\ UNCHANGED noteVars

Next ==
    \/ OnLoad
    \/ \E file \in EventFiles : OnFileCreated(file)
    \/ \E file \in EventFiles : OnFileDeleted(file)
    \/ \E folders \in ExcludedChoices : SetExcludedFolders(folders)
    \/ RunNoteLinkerNoView
    \/ RunNoteLinkerReadFails
    \/ RunNoteLinkerCached
    \/ RunNoteLinkerIndexing
    \/ ProcessBatch

Spec == Init /\ [][Next]_vars

(***************************************************************************)
(* Rebuilds that overlap: the vault holds more notes than one batch        *)
(* indexes, scan requests arrive while batches are awaiting, and every      *)
(* timer that was set fires (setTimeout callbacks are run by the event     *)
(* loop).                                                                  *)
(***************************************************************************)
RebuildInit ==
    /\ loaded = TRUE
    /\ vault = BulkVault \o <<NoteA, NoteB, FileC>>
    /\ excludedFolders = <<>>
    /\ noteTitlesCache = updateCacheEntries(vault, excludedFolders)
    /\ cacheUpToDate = TRUE
    /\ timers = <<>>
    /\ content = <<>>
    /\ potentialLinks = <<>>
    /\ event = Event("load", NoFile)
    /\ done = NoRebuild
    /\ settings = DefaultSettings
    /\ respectCaseShown = FALSE
    /\ stored = <<>>
    /\ selection = NoSelection
    /\ modals = <<>>
    /\ awaiting = <<>>
    /\ replacements = <<>>

\* the files whose creation and deletion RebuildSpec delivers
RebuildFiles == { NoteA, FileC }

RebuildNext ==
    \/ \E file \in RebuildFiles : OnFileCreated(file)
    \/ \E file \in RebuildFiles : OnFileDeleted(file)
    \/ RunNoteLinkerOverlapping
    \/ ProcessBatch

RebuildSpec == RebuildInit /\ [][RebuildNext]_vars /\ WF_vars(ProcessBatch)

(***************************************************************************)
(* The scanner on its own: detectPotentialLinks applied to every text of   *)
(* at most MaxTextLen characters and to small indexes.                     *)
(***************************************************************************)
ScanAlphabet == { "a", "b", "[", "]" }

\* what may stand inside a reference: a target, an alias separator, an alias
ReferenceAlphabet == { "a", "b", "|" }

\* references ScanTexts adds to the plain texts: [[ inner ]]
ReferenceTexts ==
    { <<"[", "[">> \o inner \o <<"]", "]">> :
        inner \in UNION { [1..n -> ReferenceAlphabet] : n \in 0..(MaxTextLen - 3) } }

ScanTexts == UNION { [1..n -> ScanAlphabet] : n \in 0..MaxTextLen } \cup ReferenceTexts

Note(title, path) == [ title |-> title, path |-> path ]

EntryA == Note(<<"a">>, <<"a", ".", "m", "d">>)

EntryA2 == Note(<<"a">>, <<"x", "/", "a", ".", "m", "d">>)

EntryB == Note(<<"b">>, <<"b", ".", "m", "d">>)

EntryAB == Note(<<"a", "b">>, <<"a", "b", ".", "m", "d">>)

\* the indexes ScanSpec scans with: one title, a title that is a prefix of
\* another, two titles out of text order, the same title under two paths
ScanIndexes == { <<EntryA>>, <<EntryAB, EntryA>>, <<EntryB, EntryA>>, <<EntryA, EntryA2>> }

ScanInit ==
    /\ loaded = TRUE
    /\ vault = <<>>
    /\ excludedFolders = <<>>
    /\ noteTitlesCache \in ScanIndexes
    /\ cacheUpToDate = TRUE
    /\ timers = <<>>
    /\ content \in ScanTexts
    /\ potentialLinks = <<>>
    /\ event = Event("load", NoFile)
    /\ done = NoRebuild
    /\ settings = DefaultSettings
    /\ respectCaseShown = FALSE
    /\ stored = <<>>
    /\ selection = NoSelection
    /\ modals = <<>>
    /\ awaiting = <<>>
    /\ replacements = <<>>

\* const potentialLinks = this.detectPotentialLinks(content)
DetectPotentialLinks ==
    /\ event.op # "scan"
    /\ scanOutcome(content, noteTitlesCache) = "returns"
    /\ potentialLinks' = detectPotentialLinks(content, noteTitlesCache)
    /\ event' = Event("scan", NoFile)
    /\ UNCHANGED <<loaded, vault, excludedFolders, noteTitlesCache, cacheUpToDate,
                   timers, content, done>>
    /\ UNCHANGED noteVars

ScanNext == DetectPotentialLinks

ScanSpec == ScanInit /\ [][ScanNext]_vars

(***************************************************************************)
(* The scanner on texts and titles whose letters differ in case, under     *)
(* both values a stored caseSensitive key may have.                        *)
(***************************************************************************)
\* longest text handed to the scanner in CaseSpec
MaxCaseLen == 4

CaseAlphabet == { "a", "A", "b", "B" }

CaseTexts == UNION { [1..n -> CaseAlphabet] : n \in 0..MaxCaseLen }

EntryMixed == Note(<<"A", "b">>, <<"A", "b", ".", "m", "d">>)

CaseIndexes == { <<EntryA>>, <<EntryMixed>>, <<EntryMixed, EntryA>> }

\* what the stored data may hold under the key caseSensitive
CaseData == { [ caseSensitive |-> b ] : b \in BOOLEAN }

CaseInit ==
    /\ loaded = TRUE
    /\ vault = <<>>
    /\ excludedFolders = <<>>
    /\ noteTitlesCache \in CaseIndexes
    /\ cacheUpToDate = TRUE
    /\ timers = <<>>
    /\ content \in CaseTexts
    /\ potentialLinks = <<>>
    /\ event = Event("load", NoFile)
    /\ done = NoRebuild
    /\ settings \in { loadSettings(data) : data \in CaseData }
    /\ respectCaseShown = FALSE
    /\ stored = <<>>
    /\ selection = NoSelection
    /\ modals = <<>>
    /\ awaiting = <<>>
    /\ replacements = <<>>

CaseSpec == CaseInit /\ [][ScanNext]_vars

(***************************************************************************)
(* runNoteLinker on notes that have, or seem to have, a frontmatter.       *)
(***************************************************************************)
\* longest note over FrontAlphabet
MaxFrontLen == 8
\* longest text between the markers, and after them, of a FrontDocument
MaxBlockLen == 2

FrontAlphabet == { "-", "\n", "a" }

FrontStrings(n) == UNION { [1..k -> FrontAlphabet] : k \in 0..n }

\* notes that begin with a marker line and hold a second marker
FrontDocuments ==
    { <<"-", "-", "-", "\n">> \o inner \o <<"-", "-", "-", "\n">> \o tail :
        inner \in FrontStrings(MaxBlockLen), tail \in FrontStrings(MaxBlockLen) }

FrontNotes == FrontStrings(MaxFrontLen) \cup FrontDocuments

FrontInit ==
    /\ loaded = TRUE
    /\ vault = <<>>
    /\ excludedFolders = <<>>
    /\ noteTitlesCache = <<EntryA>>
    /\ cacheUpToDate = TRUE
    /\ timers = <<>>
    /\ content = <<>>
    /\ potentialLinks = <<>>
    /\ event = Event("load", NoFile)
    /\ done = NoRebuild
    /\ settings \in { [ DefaultSettings EXCEPT !.excludeFrontmatter = b ] : b \in BOOLEAN }
    /\ respectCaseShown = FALSE
    /\ stored \in FrontNotes
    /\ selection = NoSelection
    /\ modals = <<>>
    /\ awaiting = <<>>
    /\ replacements = <<>>

\* (one request at a time)
FrontNext ==
    \/ Idle /\ RunNoteLinkerRequest(MaxInFlight)
    \/ \E k \in 1..Len(awaiting) : RunNoteLinkerScan(k)
    \/ \E m \in 1..Len(modals) : CloseModal(m)
    \/ \E value \in BOOLEAN : SetExcludeFrontmatter(value)

FrontSpec == FrontInit /\ [][FrontNext]_vars

(***************************************************************************)
(* The scanner on titles made of parentheses, and on the empty title, the  *)
(* empty index and the empty text.                                         *)
(***************************************************************************)
\* longest title of TitleSpec
MaxTitleLen == 3
\* longest text over ParenAlphabet
MaxParenLen == 3

TitleAlphabet == { "a", "(", ")" }

ParenAlphabet == { "a", "(", ")", "\\", "?" }

ParenTitles == UNION { [1..n -> TitleAlphabet] : n \in 0..MaxTitleLen }

RECURSIVE EscapedSpelling(_)
\* the title as an author writes it with a backslash before each parenthesis
EscapedSpelling(title) ==
    IF title = <<>> THEN <<>>
    ELSE (IF Head(title) \in { "(", ")" }
          THEN <<"\\", Head(title)>>
          ELSE <<Head(title)>>) \o EscapedSpelling(Tail(title))

\* short texts, each title in its escaped spelling, and the text the pattern
\* built from each title is made of
ParenTexts ==
    UNION { [1..n -> ParenAlphabet] : n \in 0..MaxParenLen }
        \cup { EscapedSpelling(title) : title \in ParenTitles }
        \cup { Literals(scanAtoms(title)) : title \in ParenTitles }

TitledNote(title) == Note(title, title \o <<".", "m", "d">>)

\* the empty index, every title alone, every title after the title a
TitleIndexes ==
    { <<>> } \cup { <<TitledNote(title)>> : title \in ParenTitles }
             \cup { <<EntryA, TitledNote(title)>> : title \in ParenTitles \ { <<"a">> } }

TitleInit ==
    /\ loaded = TRUE
    /\ vault = <<>>
    /\ excludedFolders = <<>>
    /\ noteTitlesCache \in TitleIndexes
    /\ cacheUpToDate = TRUE
    /\ timers = <<>>
    /\ content \in ParenTexts
    /\ potentialLinks = <<>>
    /\ event = Event("load", NoFile)
    /\ done = NoRebuild
    /\ settings = DefaultSettings
    /\ respectCaseShown = FALSE
    /\ stored = <<>>
    /\ selection = NoSelection
    /\ modals = <<>>
    /\ awaiting = <<>>
    /\ replacements = <<>>

\* this.detectPotentialLinks(content) raises: new RegExp rejects a pattern
DetectPotentialLinksThrows ==
    /\ event.op = "load"
    /\ scanOutcome(content, noteTitlesCache) = "throws"
    /\ event' = Event("scanthrows", NoFile)
    /\ UNCHANGED <<loaded, vault, excludedFolders, noteTitlesCache, cacheUpToDate,
                   timers, content, potentialLinks, done>>
    /\ UNCHANGED noteVars

\* this.detectPotentialLinks(content) never returns: its while loop goes on
\* pushing the same empty match, and nothing else runs meanwhile
DetectPotentialLinksHangs ==
    /\ event.op = "load"
    /\ scanOutcome(content, noteTitlesCache) = "hangs"
    /\ event' = Event("scanhangs", NoFile)
    /\ UNCHANGED <<loaded, vault, excludedFolders, noteTitlesCache, cacheUpToDate,
                   timers, content, potentialLinks, done>>
    /\ UNCHANGED noteVars

TitleNext ==
    \/ DetectPotentialLinks
    \/ DetectPotentialLinksThrows
    \/ DetectPotentialLinksHangs

TitleSpec == TitleInit /\ [][TitleNext]_vars

(***************************************************************************)
(* Scan, selection and rewrite of a note.                                  *)
(***************************************************************************)
\* notes of words that differ in case, and notes of words inside words
RewriteAlphabets == { { "a", "A", " " }, { "a", "b" } }

RewriteNotes ==
    UNION { [1..n -> alphabet] : n \in 0..MaxNoteLen, alphabet \in RewriteAlphabets }

EntryUpperA == Note(<<"A">>, <<"x", "/", "A", ".", "m", "d">>)

EntryABA == Note(<<"a", "b", "a">>, <<"a", "b", "a", ".", "m", "d">>)

\* one title, two titles that differ in case only, a title inside another
RewriteIndexes == { <<EntryA>>, <<EntryA, EntryUpperA>>, <<EntryABA, EntryB>> }

RewriteSettings ==
    { [ DefaultSettings EXCEPT !.enableWikiLinks = w, !.respectCase = c ] :
        w \in BOOLEAN, c \in BOOLEAN }

RewriteInit ==
    /\ loaded = TRUE
    /\ vault = <<>>
    /\ excludedFolders = <<>>
    /\ noteTitlesCache \in RewriteIndexes
    /\ cacheUpToDate = TRUE
    /\ timers = <<>>
    /\ content = <<>>
    /\ potentialLinks = <<>>
    /\ event = Event("load", NoFile)
    /\ done = NoRebuild
    /\ settings \in RewriteSettings
    /\ respectCaseShown = FALSE
    /\ stored \in RewriteNotes
    /\ selection = NoSelection
    /\ modals = <<>>
    /\ awaiting = <<>>
    /\ replacements = <<>>

\* (one request at a time, and no click while an insertLinks is suspended)
RewriteNext ==
    \/ Idle /\ RunNoteLinkerRequest(MaxInFlight)
    \/ \E k \in 1..Len(awaiting) : RunNoteLinkerScan(k)
    \/ \E m \in 1..Len(modals) :
           \E i \in 1..Len(modals[m].potentialLinks) :
               awaiting = <<>> /\ ToggleLink(m, i)
    \/ \E m \in 1..Len(modals) : awaiting = <<>> /\ Confirm(MaxInFlight, m)
    \/ \E k \in 1..Len(awaiting) : InsertLinks(MaxReferences, k)
    \/ \E k \in 1..Len(awaiting) : InsertLinksWritten(k)
    \/ \E m \in 1..Len(modals) : CloseModal(m)
    \/ DisplaySettings
    \/ \E value \in BOOLEAN : SetEnableWikiLinks(value)
    \/ \E value \in BOOLEAN : SetRespectCase(value)

RewriteSpec == RewriteInit /\ [][RewriteNext]_vars

(***************************************************************************)
(* The result browser: a note with up to MaxOccurrences occurrences of one *)
(* title, browsed with the page sizes the settings tab can give.           *)
(***************************************************************************)
\* most occurrences the scanned note holds
MaxOccurrences == 11

\* the smallest value of the Page Size slider: setLimits(5, 50, 1)
minPageSize == 5

RECURSIVE Repeated(_, _)
\* n times the word, with a space between
Repeated(word, n) ==
    IF n = 0 THEN <<>>
    ELSE IF n = 1 THEN word
    ELSE word \o <<" ">> \o Repeated(word, n - 1)

\* what loadData returns: no pageSize saved, or one the slider was set to
ModalData == { <<>> } \cup { [ pageSize |-> minPageSize ] }

\* the links whose checkbox is clicked: the first of the first page and the
\* first of the second
ToggledLinks == { 1, minPageSize + 1 }

ModalInit ==
    /\ loaded = TRUE
    /\ vault = <<>>
    /\ excludedFolders = <<>>
    /\ noteTitlesCache = <<EntryA>>
    /\ cacheUpToDate = TRUE
    /\ timers = <<>>
    /\ content = <<>>
    /\ potentialLinks = <<>>
    /\ event = Event("load", NoFile)
    /\ done = NoRebuild
    /\ settings \in { loadSettings(data) : data \in ModalData }
    /\ respectCaseShown = FALSE
    /\ stored \in { Repeated(<<"a">>, n) : n \in 0..MaxOccurrences }
    /\ selection = NoSelection
    /\ modals = <<>>
    /\ awaiting = <<>>
    /\ replacements = <<>>

\* the values the Page Size slider is set to
PageSizes == { minPageSize, DefaultSettings.pageSize }

\* (one request at a time)
ModalNext ==
    \/ Idle /\ RunNoteLinkerRequest(MaxInFlight)
    \/ \E k \in 1..Len(awaiting) : RunNoteLinkerScan(k)
    \/ \E m \in 1..Len(modals) : \E delta \in { -1, 1 } : ChangePage(m, delta)
    \/ \E m \in 1..Len(modals) : SelectAll(m)
    \/ \E m \in 1..Len(modals) : SelectAllOnPage(m)
    \/ \E m \in 1..Len(modals) : \E i \in ToggledLinks : ToggleLink(m, i)
    \/ \E m \in 1..Len(modals) : CloseModal(m)
    \/ \E value \in PageSizes : SetPageSize(value)

ModalSpec == ModalInit /\ [][ModalNext]_vars

(***************************************************************************)
(* The plugin against a vault and one active note: index, scan, selection  *)
(* and rewrite together.  The vault holds one or two notes, or more than   *)
(* one batch of them; a request is made when no other is under way and no  *)
(* rebuild has batches left (RebuildSpec has those).                       *)
(***************************************************************************)
\* the notes the active file may hold: nothing, the title A as a word, A
\* twice, A in a frontmatter and after it
NoteDocuments ==
    { <<>>,
      <<"A">>,
      <<"A", " ", "A">>,
      <<"-", "-", "-", "\n", "A", "\n", "-", "-", "-", "\n", "A">> }

\* a note whose title the scan cannot make a pattern of
NoteParen == TFile(<<"n">>, <<"(">>, MD)

\* a vault of more notes than one batch, that note in its first batch
NoteBulkVault == <<NoteParen>> \o BulkVault \o <<NoteA>>

\* the links whose checkbox is clicked in NoteSpec: the first
NoteToggled == { 1 }

\* nothing selected, or the first character
NoteSelections == { NoSelection, <<0, 1>> }

NoteInit ==
    /\ loaded = FALSE
    /\ vault \in { <<NoteA>>, <<NoteA, NoteParen>>, NoteBulkVault }
    /\ excludedFolders = <<>>
    /\ noteTitlesCache = <<>>
    /\ cacheUpToDate = FALSE
    /\ timers = <<>>
    /\ content = <<>>
    /\ potentialLinks = <<>>
    /\ event = Event("new", NoFile)
    /\ done = NoRebuild
    /\ settings = DefaultSettings
    /\ respectCaseShown = FALSE
    /\ stored \in NoteDocuments
    /\ selection \in { range \in NoteSelections : range[2] <= Len(stored) }
    /\ modals = <<>>
    /\ awaiting = <<>>
    /\ replacements = <<>>

NoteNext ==
    \/ OnLoad
    \/ OnFileCreated(NoteB)
    \/ OnFileDeleted(NoteB)
    \/ \E folders \in ExcludedChoices : SetExcludedFolders(folders)
    \/ \E value \in BOOLEAN : SetExcludeFrontmatter(value)
    \/ RunNoteLinkerNoView
    \/ Idle /\ timers = <<>> /\ RunNoteLinkerRequest(MaxInFlight)
    \/ Idle /\ timers = <<>> /\ RunNoteLinkerSelected(MaxInFlight)
    \/ \E k \in 1..Len(awaiting) : RunNoteLinkerScan(k)
    \/ \E k \in 1..Len(awaiting) : RunNoteLinkerReadRejected(k)
    \/ \E m \in 1..Len(modals) : \E i \in NoteToggled : ToggleLink(m, i)
    \/ \E m \in 1..Len(modals) : awaiting = <<>> /\ Confirm(MaxInFlight, m)
    \/ \E k \in 1..Len(awaiting) : InsertLinks(MaxReferences, k)
    \/ \E k \in 1..Len(awaiting) : InsertLinksWritten(k)
    \/ \E m \in 1..Len(modals) : CloseModal(m)
    \/ \E text \in NoteDocuments : ModifyStored(text)
    \/ ProcessBatch

NoteSpec == NoteInit /\ [][NoteNext]_vars

(***************************************************************************)
(* Requests and rewrites that overlap: runNoteLinker is called while a     *)
(* call waits for its read, Confirm is clicked while an insertLinks is     *)
(* suspended, checkboxes are clicked and the note changes in storage       *)
(* meanwhile.                                                              *)
(***************************************************************************)
\* most references a note may hold and still be rewritten in OverlapSpec
MaxRewritten == 1

OverlapDocuments == { <<"A">>, <<"A", " ", "A">> }

OverlapInit ==
    /\ loaded = TRUE
    /\ vault = <<NoteA>>
    /\ excludedFolders = <<>>
    /\ noteTitlesCache = updateCacheEntries(vault, excludedFolders)
    /\ cacheUpToDate = TRUE
    /\ timers = <<>>
    /\ content = <<>>
    /\ potentialLinks = <<>>
    /\ event = Event("load", NoFile)
    /\ done = NoRebuild
    /\ settings = DefaultSettings
    /\ respectCaseShown = FALSE
    /\ stored \in OverlapDocuments
    /\ selection = NoSelection
    /\ modals = <<>>
    /\ awaiting = <<>>
    /\ replacements = <<>>

OverlapNext ==
    \/ RunNoteLinkerRequest(MaxInFlight)
    \/ \E k \in 1..Len(awaiting) : RunNoteLinkerScan(k)
    \/ \E m \in 1..Len(modals) : \E i \in NoteToggled : ToggleLink(m, i)
    \/ \E m \in 1..Len(modals) : Confirm(MaxInFlight, m)
    \/ \E k \in 1..Len(awaiting) : InsertLinks(MaxRewritten, k)
    \/ \E k \in 1..Len(awaiting) : InsertLinksWritten(k)
    \/ \E m \in 1..Len(modals) : CloseModal(m)
    \/ \E text \in OverlapDocuments : ModifyStored(text)

OverlapSpec == OverlapInit /\ [][OverlapNext]_vars

(***************************************************************************)
(* Properties of the index (checked under Spec).                           *)
(***************************************************************************)
\* the closures of the pending timers, without what the model records beside
TimerClosures(pending) ==
    [ i \in 1..Len(pending) |-> <<pending[i].notesToIndex, pending[i].startIndex>> ]

\* C1: in every reachable state the title index holds at most one entry per
\* path.
C1_OneEntryPerPath ==
    \A i, j \in 1..Len(noteTitlesCache) :
        noteTitlesCache[i].path = noteTitlesCache[j].path => i = j

\* C2: a scan requested while the index is stale reads the index only after
\* the rebuild has processed every qualifying document and set cacheUpToDate.
C2_StaleScanReadsRebuiltIndex ==
    event.op = "indexscan" =>
        /\ cacheUpToDate
        /\ \A path \in QualifyingPaths(vault, excludedFolders) :
               path \in PathsOf(noteTitlesCache)

\* C3: when a rebuild completes and marks the index fresh, the paths in the
\* index are the qualifying documents of the collection as it was at some
\* instant between the rebuild's start and its completion.
C3_CompletedRebuildReflectsSnapshot ==
    done.completed => PathsOf(noteTitlesCache) \in done.snapshots

\* C4: a rebuild that runs with nothing interleaved (indexNotes, and updateCache
\* at load) ends with exactly one entry {title: basename, path} for each
\* markdown document under no excluded prefix, in collection order, and no
\* other entry.
C4_RebuildIndexesQualifying ==
    (event.op = "load" \/ (done.completed /\ done.alone)) =>
        noteTitlesCache = Entries(Qualifying(vault, excludedFolders))

\* a rebuild of more than one batch has just completed undisturbed, in a vault
\* that also holds a file that is not markdown
C4_Witness ==
    /\ done.completed /\ done.alone
    /\ event.op = "batch"
    /\ Len(noteTitlesCache) > batchSize
    /\ \E i \in 1..Len(vault) : vault[i] = FileC

\* C5: onFileCreated appends exactly one entry at the end and marks the index
\* stale if the document is markdown and under no excluded prefix, changes
\* neither the index nor the flag otherwise, and starts no rebuild.
C5_CreatedAppendsOrLeaves ==
    [][ event'.op = "create" =>
          /\ IF event'.file.extension = MD /\ ~isExcluded(event'.file, excludedFolders)
             THEN /\ noteTitlesCache' = Append(noteTitlesCache, TitleEntry(event'.file))
                  /\ cacheUpToDate' = FALSE
             ELSE /\ noteTitlesCache' = noteTitlesCache
                  /\ cacheUpToDate' = cacheUpToDate
          /\ TimerClosures(timers') = TimerClosures(timers) ]_vars

\* a qualifying note was created while the index held other entries
C5_Witness ==
    /\ event.op = "create"
    /\ event.file = NoteA
    /\ ~cacheUpToDate
    /\ Len(noteTitlesCache) > 1
    /\ noteTitlesCache[Len(noteTitlesCache)] = TitleEntry(NoteA)

\* C6: onFileDeleted removes every entry whose path is the given path, leaves
\* the others in place and in order, and marks the index stale, also when no
\* entry had that path.
C6_DeletedRemovesPath ==
    [][ event'.op = "delete" =>
          /\ noteTitlesCache' =
                 SelectSeq(noteTitlesCache, LAMBDA note : note.path # event'.file.path)
          /\ cacheUpToDate' = FALSE ]_vars

\* an indexed note was deleted: its path is gone, the rest is there
C6_Witness ==
    /\ event.op = "delete"
    /\ event.file = NoteA
    /\ ~cacheUpToDate
    /\ NoteA.path \notin PathsOf(noteTitlesCache)
    /\ Len(noteTitlesCache) >= NBulk

\* C7: with no rebuild in flight, a create or delete event delivered to an
\* index whose entry set is the one a full rebuild would produce leaves an
\* index whose entry set is the one a full rebuild of the new collection would
\* produce (hence so does any sequence of such events).
C7_EventsAgreeWithRebuild ==
    [][ ( /\ event'.op \in { "create", "delete" }
          /\ timers = <<>>
          /\ Range(noteTitlesCache) = Range(updateCacheEntries(vault, excludedFolders)) )
        => Range(noteTitlesCache') = Range(updateCacheEntries(vault', excludedFolders')) ]_vars

\* an excluded note and a text file were created, a note was deleted, and the
\* index agrees with a rebuild
C7_Witness ==
    /\ event.op = "delete"
    /\ event.file = NoteA
    /\ timers = <<>>
    /\ ~cacheUpToDate
    /\ excludedFolders # <<>>
    /\ \E i \in 1..Len(vault) : vault[i] = NoteB
    /\ \E i \in 1..Len(vault) : vault[i] = FileC
    /\ Range(noteTitlesCache) = Range(updateCacheEntries(vault, excludedFolders))

\* C8: a rebuild whose progress view has been closed while it had batches left
\* is cancelled: it does not go on to mark the index fresh.
C8_ClosedProgressCancelsRebuild ==
    done.completed => done.progress = "open"

(***************************************************************************)
(* Properties of the scanner (checked under ScanSpec).                     *)
(***************************************************************************)
\* offset of the first ]] at or after offset from, or -1
ClosingAt(text, from) ==
    LET at == { c \in from..(Len(text) - 2) : text[c + 1] = "]" /\ text[c + 2] = "]" }
    IN  IF at = {} THEN -1 ELSE CHOOSE c \in at : \A d \in at : c <= d

\* the span [start, end) lies between a [[ and the ]] that closes it
InsideReference(text, start, end) ==
    \E o \in 0..(start - 2) :
        /\ text[o + 1] = "[" /\ text[o + 2] = "["
        /\ ClosingAt(text, o + 2) >= end

\* position in the index of the entry an occurrence comes from
EntryPosition(link) ==
    CHOOSE i \in 1..Len(noteTitlesCache) : noteTitlesCache[i].path = link.notePath

\* C9: detectPotentialLinks returns its occurrences sorted by non-decreasing
\* span start; occurrences with equal start are in the order of their title
\* entries in the index.
C9_SortedByStart ==
    event.op = "scan" =>
        \A i, j \in 1..Len(potentialLinks) :
            i < j =>
                /\ potentialLinks[i].matchIndex[1] <= potentialLinks[j].matchIndex[1]
                /\ potentialLinks[i].matchIndex[1] = potentialLinks[j].matchIndex[1]
                       => EntryPosition(potentialLinks[i]) < EntryPosition(potentialLinks[j])

\* a scan whose sort moved occurrences and which has two occurrences with the
\* same start
C9_Witness ==
    /\ event.op = "scan"
    /\ potentialLinks # discovered(content, noteTitlesCache)
    /\ \E i, j \in 1..Len(potentialLinks) :
           /\ i < j
           /\ potentialLinks[i].matchIndex[1] = potentialLinks[j].matchIndex[1]

\* C10: no occurrence detectPotentialLinks emits has its span between an
\* opening [[ and its closing ]].
C10_NoSpanInsideReference ==
    event.op = "scan" =>
        \A k \in 1..Len(potentialLinks) :
            ~InsideReference(content, potentialLinks[k].matchIndex[1],
                             potentialLinks[k].matchIndex[2])

(***************************************************************************)
(* Properties of the scanner's case policy (checked under CaseSpec).       *)
(***************************************************************************)
\* the two strings are equal up to the case of their letters
SameUpToCase(s, t) ==
    /\ Len(s) = Len(t)
    /\ \A k \in 1..Len(s) : Canonicalize(s[k]) = Canonicalize(t[k])

\* C11: the scan follows the configured case sensitivity: with caseSensitive
\* true every occurrence's text has exactly the title's casing; with
\* caseSensitive false every substring equal to a title up to letter case is
\* covered by an occurrence of that title (and with caseSensitive true every
\* substring equal to it); in both modes originalMatch is the substring of the
\* scanned text at the occurrence's span and title is the entry's title.
C11_CaseFollowsConfiguration ==
    event.op = "scan" =>
        /\ \A k \in 1..Len(potentialLinks) :
               LET link == potentialLinks[k]
               IN  /\ link.originalMatch = Slice(content, link.matchIndex[1], link.matchIndex[2])
                   /\ \E i \in 1..Len(noteTitlesCache) :
                          /\ noteTitlesCache[i].path = link.notePath
                          /\ noteTitlesCache[i].title = link.title
                   /\ settings.caseSensitive => link.originalMatch = link.title
        /\ \A i \in 1..Len(noteTitlesCache) :
               \A p \in 0..Len(content) :
                   LET title == noteTitlesCache[i].title
                       found == Slice(content, p, p + Len(title))
                   IN  (IF settings.caseSensitive THEN found = title
                                                  ELSE SameUpToCase(found, title))
                       => \E k \in 1..Len(potentialLinks) :
                              /\ potentialLinks[k].notePath = noteTitlesCache[i].path
                              /\ potentialLinks[k].matchIndex[1] <= p
                              /\ p < potentialLinks[k].matchIndex[2]

(***************************************************************************)
(* Properties of the frontmatter exclusion (checked under FrontSpec).      *)
(***************************************************************************)
\* a marker line stands at offset q: q is the start of a line, and the line is
\* three dashes
MarkerLineAt(text, q) ==
    /\ q = 0 \/ text[q] = "\n"
    /\ q + 4 <= Len(text)
    /\ SubSeq(text, q + 1, q + 4) = <<"-", "-", "-", "\n">>

\* the end of the leading block: the text opens with a marker line, and the
\* block runs to the end of the first marker line after it; 0 if there is none
LeadingBlockEnd(text) ==
    LET closing == { q \in 4..Len(text) : MarkerLineAt(text, q) }
    IN  IF MarkerLineAt(text, 0) /\ closing # {}
        THEN (CHOOSE q \in closing : \A r \in closing : q <= r) + 4
        ELSE 0

\* C12: with excludeFrontmatter set, the text scanned is the note less its
\* leading block only: a block that starts at offset 0 with a marker line and
\* ends with the first following marker at the start of a line; a note with
\* no such block is scanned whole and no later block is removed.  So the
\* title has one occurrence for each place it stands at after the block and
\* none for the places inside it.
C12_OnlyLeadingBlockRemoved ==
    (event.op = "scan" /\ settings.excludeFrontmatter) =>
        LET end == LeadingBlockEnd(stored)
        IN  /\ content = Slice(stored, end, Len(stored))
            /\ Len(potentialLinks) =
                   Cardinality({ p \in (end + 1)..Len(stored) : stored[p] = "a" })

(***************************************************************************)
(* Properties of the scanner's patterns (checked under TitleSpec).         *)
(***************************************************************************)
\* detectPotentialLinks was called in the step that led here
ScanCalled == event.op \in { "scan", "scanthrows", "scanhangs" }

\* the scan returned an occurrence of the entry that covers offset p
OccurrenceCovers(entry, p) ==
    /\ event.op = "scan"
    /\ \E k \in 1..Len(potentialLinks) :
           /\ potentialLinks[k].notePath = entry.path
           /\ potentialLinks[k].matchIndex[1] <= p
           /\ p < potentialLinks[k].matchIndex[2]

\* C13: for a title that contains parentheses, the scan emits an occurrence
\* where the text holds the title with its parentheses written plainly, and
\* where it holds the title with a backslash before each parenthesis.
C13_ParenthesesPlainOrEscaped ==
    ScanCalled =>
        \A i \in 1..Len(noteTitlesCache) :
            LET entry == noteTitlesCache[i]
            IN  (\E k \in 1..Len(entry.title) : entry.title[k] \in { "(", ")" }) =>
                    \A spelling \in { entry.title, EscapedSpelling(entry.title) } :
                        \A p \in 0..(Len(content) - Len(spelling)) :
                            Slice(content, p, p + Len(spelling)) = spelling
                                => OccurrenceCovers(entry, p)

\* C20: detectPotentialLinks returns for every text and every list of entries
\* with string titles, neither raising nor looping for ever, and what it
\* returns for an empty list or an empty text is the empty sequence.
C20_ScanAlwaysReturns ==
    ScanCalled =>
        /\ event.op = "scan"
        /\ (noteTitlesCache = <<>> \/ content = <<>>) => potentialLinks = <<>>

(***************************************************************************)
(* Properties of the rewrite (checked under RewriteSpec).                  *)
(***************************************************************************)
\* [[title]]
CanonicalReference(link) == <<"[", "[">> \o link.title \o <<"]", "]">>

\* [[title|matchedText]]
AliasReference(link) ==
    <<"[", "[">> \o link.title \o <<"|">> \o link.originalMatch \o <<"]", "]">>

\* the insertLinks that handed its text to vault.modify in this step
Handed == awaiting'[Len(awaiting')]

\* C14: the replacement insertLinks builds for a selected occurrence is
\* [[title|matchedText]] exactly when enableWikiLinks and respectCase are set
\* and matchedText differs from title, and [[title]] otherwise.
C14_ReplacementToken ==
    [][ event'.op = "insert" =>
          /\ Len(replacements') = Len(Handed.links)
          /\ \A i \in 1..Len(Handed.links) :
                 LET link == Handed.links[i]
                 IN  replacements'[i] =
                         IF /\ settings.enableWikiLinks
                            /\ settings.respectCase
                            /\ link.originalMatch # link.title
                         THEN AliasReference(link)
                         ELSE CanonicalReference(link) ]_vars

\* one insertLinks call built a reference with an alias and one without, for
\* two occurrences of the same text under titles of different case
C14_Witness ==
    /\ event.op = "insert"
    /\ settings.enableWikiLinks /\ settings.respectCase
    /\ replacements = << <<"[", "[", "a", "]", "]">>,
                         <<"[", "[", "A", "|", "a", "]", "]">> >>

\* C15: after insertLinks rewrote a note with occurrences selected from its
\* scan, a scan of the result with the same index has no occurrence inside a
\* reference the rewrite inserted.  (The notes of RewriteSpec have no bracket
\* at first: every reference a scan meets was inserted by a rewrite.)
C15_RescanFindsNothingInside ==
    event.op = "scan" =>
        \A k \in 1..Len(potentialLinks) :
            ~InsideReference(content, potentialLinks[k].matchIndex[1],
                             potentialLinks[k].matchIndex[2])

\* C17: when two selected occurrences have the same matchedText and different
\* replacements, insertLinks leaves the note with every whole-word instance
\* of that text replaced by the replacement of the second, and nothing else
\* changed.
C17_LastReplacementWins ==
    [][ ( /\ event'.op = "insert"
          /\ Len(Handed.links) = 2
          /\ Handed.links[1].originalMatch = Handed.links[2].originalMatch
          /\ replacements'[1] # replacements'[2] )
        => Handed.data = replaceFrom(stored, Handed.links[2].originalMatch,
                                     replacements'[2], 0) ]_vars

(***************************************************************************)
(* Properties of a scan request and of the rewrite against the index and   *)
(* the stored note (C18 checked under Spec, C16 and C19 under NoteSpec).   *)
(***************************************************************************)
\* C16: the rewrite works on the text the scan was given and on nothing read
\* again: what insertLinks writes is the note as the scan read it, with the
\* scanned text replaced by its rewrite (a function of the scanned text, the
\* checked occurrences and the settings) and with what was not scanned, a
\* stripped frontmatter and the text around the selection, as it was.
C16_RewriteOfScannedTextOnly ==
    [][ event'.op = "insert" =>
          LET scanned  == Handed.scanned
              document == scanned.document
              text   == textToScan(document, scanned.selection)
              from   == IF scanned.selection[1] < scanned.selection[2]
                        THEN scanned.selection[1] ELSE 0
              before == Slice(document, 0, from + Len(text) - Len(scanned.content))
              after  == Slice(document, from + Len(text), Len(document))
          IN  Handed.data =
                  before \o insertLinksText(scanned.content, Handed.links, settings)
                         \o after ]_vars

\* C18: a scan request that finds no active view, or whose read of the note
\* fails, changes nothing: the index and the flag are as before, no rebuild
\* is started, the note is not written, no result is produced.
C18_FailedRequestChangesNothing ==
    [][ event'.op \in { "noview", "readfail" } =>
          /\ noteTitlesCache' = noteTitlesCache
          /\ cacheUpToDate' = cacheUpToDate
          /\ TimerClosures(timers') = TimerClosures(timers)
          /\ stored' = stored
          /\ potentialLinks' = potentialLinks
          /\ modals' = modals ]_vars

\* the read failed at a request made while the index was stale and the vault
\* held more notes than one batch indexes
C18_Witness ==
    /\ event.op = "readfail"
    /\ ~cacheUpToDate
    /\ Len(Qualifying(vault, excludedFolders)) > batchSize
    /\ noteTitlesCache # <<>>

\* the step is the scan of a runNoteLinker that was called when cacheUpToDate
\* had the given value
ScanOfRequest(fresh) ==
    /\ event'.op \in { "scan", "indexscan", "scanthrows" }
    /\ \/ awaiting' = awaiting /\ cacheUpToDate = fresh
       \/ \E k \in 1..Len(awaiting) :
              /\ awaiting[k].op = "scanread"
              /\ awaiting[k].fresh = fresh
              /\ awaiting' = Remove(awaiting, k)

\* the step belongs to insertLinks: Confirm, the replacements, the write
InsertLinksStep == event'.op \in { "confirm", "insert", "insertthrows", "written" }

\* C19: a scan request made while the index is fresh (cacheUpToDate is true
\* when runNoteLinker is called) leaves noteTitlesCache and cacheUpToDate as
\* they are and starts no rebuild, and so does insertLinks, always.
C19_FreshAtRequestKeepsIndex ==
    [][ (ScanOfRequest(TRUE) \/ InsertLinksStep) =>
          /\ noteTitlesCache' = noteTitlesCache
          /\ cacheUpToDate' = cacheUpToDate
          /\ TimerClosures(timers') = TimerClosures(timers) ]_vars

\* C19, amended: a scan request that finds the index fresh when it tests
\* cacheUpToDate, that is when it has its text, leaves noteTitlesCache and
\* cacheUpToDate as they are and starts no rebuild, and so does insertLinks,
\* always.
C19_FreshScanAndRewriteKeepIndex ==
    [][ ((event'.op \in { "scan", "indexscan", "scanthrows" } /\ cacheUpToDate)
            \/ InsertLinksStep) =>
          /\ noteTitlesCache' = noteTitlesCache
          /\ cacheUpToDate' = cacheUpToDate
          /\ TimerClosures(timers') = TimerClosures(timers) ]_vars

\* a scan ran on a fresh index that is not what a rebuild would give now, and
\* found occurrences
C19_Witness ==
    /\ event.op = "scan"
    /\ cacheUpToDate
    /\ potentialLinks # <<>>
    /\ noteTitlesCache # Entries(Qualifying(vault, excludedFolders))

(***************************************************************************)
(* Properties of overlapping rebuilds (checked under RebuildSpec).         *)
(***************************************************************************)
\* C21: the index is marked fresh only on completion of a rebuild: whenever
\* cacheUpToDate is true no processBatch callback is pending.
C21_FreshMeansNoBatchPending ==
    cacheUpToDate => timers = <<>>

\* the notes of a rebuild's snapshot from offset from, count of them
SnapshotPart(notes, from, count) == Entries(SubSeq(notes, from + 1, from + count))

\* C22: every rebuild started by indexNotes finishes if its timers fire.  Each
\* batch, the first (run by indexNotes itself) and those run by timers, pushes
\* at most 50 notes: the notes of the snapshot taken at the start, from where
\* the batch before stopped, in order.  A batch that does not reach the end of
\* the snapshot leaves a timer for the rest; the batch that reaches it sets
\* cacheUpToDate.  Nothing but its own timer firing takes the oldest rebuild
\* from the queue, and while a rebuild is pending a rebuild completes
\* eventually, whatever events come in between.
C22_RebuildFinishes ==
    /\ [][ event'.op = "indexscan" =>
             LET notes  == Qualifying(vault, excludedFolders)
                 pushed == Len(noteTitlesCache')
             IN  /\ pushed <= batchSize
                 /\ noteTitlesCache' = SnapshotPart(notes, 0, pushed)
                 /\ IF pushed = Len(notes)
                    THEN cacheUpToDate' /\ done'.completed /\ Len(timers') = Len(timers)
                    ELSE /\ pushed = batchSize
                         /\ Len(timers') = Len(timers) + 1
                         /\ timers'[Len(timers')].notesToIndex = notes
                         /\ timers'[Len(timers')].startIndex = pushed ]_vars
    /\ [][ event'.op = "batch" =>
             LET t      == Head(timers)
                 pushed == Len(noteTitlesCache') - Len(noteTitlesCache)
             IN  /\ pushed <= batchSize
                 /\ noteTitlesCache' =
                        noteTitlesCache \o SnapshotPart(t.notesToIndex, t.startIndex, pushed)
                 /\ IF t.startIndex + pushed = Len(t.notesToIndex)
                    THEN cacheUpToDate' /\ done'.completed /\ Len(timers') = Len(timers) - 1
                    ELSE /\ pushed = batchSize
                         /\ Len(timers') = Len(timers)
                         /\ timers'[Len(timers')].notesToIndex = t.notesToIndex
                         /\ timers'[Len(timers')].startIndex = t.startIndex + pushed ]_vars
    /\ [][ (timers # <<>> /\ event'.op # "batch") =>
             /\ Len(timers') >= Len(timers)
             /\ \A k \in 1..Len(timers) :
                    /\ timers'[k].notesToIndex = timers[k].notesToIndex
                    /\ timers'[k].startIndex = timers[k].startIndex ]_vars
    /\ (timers # <<>>) ~> (event.op = "batch" /\ done.completed /\ cacheUpToDate)

\* a timer's batch completed a rebuild of more notes than one batch holds,
\* after other operations had run since the rebuild started
C22_Witness ==
    /\ event.op = "batch"
    /\ done.completed
    /\ ~done.alone
    /\ cacheUpToDate
    /\ Len(noteTitlesCache) > batchSize

(***************************************************************************)
(* The fresh index against the exclusion rules (checked under Spec).       *)
(***************************************************************************)
\* C23: a fresh index respects the current exclusion rules: whenever
\* cacheUpToDate is true, no entry's path starts with a prefix of the current
\* excludedFolders and every markdown document of the vault under no such
\* prefix has an entry, also after excludedFolders was changed in the settings.
C23_FreshIndexRespectsExclusion ==
    cacheUpToDate =>
        /\ \A i \in 1..Len(noteTitlesCache) :
               ~isExcluded(noteTitlesCache[i], excludedFolders)
        /\ QualifyingPaths(vault, excludedFolders) \subseteq PathsOf(noteTitlesCache)

(***************************************************************************)
(* Scan and rewrite on the same occurrence (checked under RewriteSpec).    *)
(***************************************************************************)
\* C24: every selected occurrence is linked: when insertLinks runs on the text
\* that was scanned with one occurrence o of the scan checked, the note it
\* writes has o's replacement token where o's text was, that is at o's start
\* moved right by what the instances replaced before it have grown by.
C24_SelectedOccurrenceIsLinked ==
    [][ ( /\ event'.op = "insert"
          /\ Len(Handed.links) = 1
          /\ stored = Handed.scanned.content ) =>
          LET o     == Handed.links[1]
              token == replacements'[1]
              start == o.matchIndex[1]
              grow  == Len(token) - Len(o.originalMatch)
          IN  \E j \in 0..start :
                  Slice(Handed.data, start + j * grow, start + j * grow + Len(token))
                      = token ]_vars

\* C25: selecting the same text twice is harmless: when insertLinks runs with
\* two occurrences checked that have the same title and the same originalMatch,
\* it writes what it writes with one of them checked.
C25_SameTextTwiceIsHarmless ==
    [][ (event'.op = "insert" /\ Len(Handed.links) = 2) =>
          LET first  == Handed.links[1]
              second == Handed.links[2]
          IN  (first.title = second.title /\ first.originalMatch = second.originalMatch) =>
                  Handed.data = insertLinksText(stored, <<first>>, settings) ]_vars

(***************************************************************************)
(* The result browser (checked under ModalSpec).                           *)
(***************************************************************************)
\* the positions of the occurrences on the page a browser displays
OnPage(modal) ==
    { i \in 1..Len(modal.potentialLinks) :
        /\ i - 1 >= modal.currentPage * modal.pageSize
        /\ i - 1 < (modal.currentPage + 1) * modal.pageSize }

\* the step changed the m-th browser and no other
Only(m) ==
    /\ Len(modals') = Len(modals)
    /\ \A j \in 1..Len(modals) : j # m => modals'[j] = modals[j]

\* C26: in an open result browser, after any sequence of page changes,
\* Select All, Select All on This Page and checkbox clicks, currentPage is at
\* least 0 and less than ceil(occurrences / pageSize) and checkedLinks holds
\* occurrences of potentialLinks only; changePage leaves checkedLinks as it
\* is; selectAllOnPage adds the occurrences of the page on display, those with
\* index in [currentPage*pageSize, min((currentPage+1)*pageSize, total)), and
\* removes none.
C26_BrowserPaging ==
    /\ [](\A m \in 1..Len(modals) :
            /\ modals[m].potentialLinks # <<>>
            /\ modals[m].currentPage >= 0
            /\ modals[m].currentPage * modals[m].pageSize < Len(modals[m].potentialLinks)
            /\ Range(modals[m].checkedLinks) \subseteq 1..Len(modals[m].potentialLinks))
    /\ [][ event'.op = "page" =>
             /\ Len(modals') = Len(modals)
             /\ \A m \in 1..Len(modals) :
                    modals'[m].checkedLinks = modals[m].checkedLinks ]_vars
    /\ [][ event'.op = "selectpage" =>
             \E m \in 1..Len(modals) :
                 /\ Only(m)
                 /\ Range(modals'[m].checkedLinks) =
                        Range(modals[m].checkedLinks) \cup OnPage(modals[m]) ]_vars

\* Select All on This Page was clicked on the last of three pages, with a
\* link of another page checked before
C26_Witness ==
    /\ event.op = "selectpage"
    /\ \E m \in 1..Len(modals) :
           /\ modals[m].currentPage = 2
           /\ Len(modals[m].potentialLinks) > 2 * modals[m].pageSize
           /\ \E k \in 1..Len(modals[m].checkedLinks) :
                  modals[m].checkedLinks[k] <= modals[m].pageSize

====
